---- MODULE Spec2Model ----
(***************************************************************************)
(* Company Brochure Generator: the content-acquisition and aggregation     *)
(* pipeline.  ScraperService (cache, retry, fetch), LLMService link         *)
(* selection and streaming, BrochureService.generate_brochure.              *)
(*                                                                         *)
(* Strings are kept as sequences of segments [k, name, ver, len]: a run of  *)
(* len characters of one origin.  Length, concatenation and slicing are     *)
(* computed on that representation, so the program's real size constants    *)
(* are used unscaled.  Progress fractions are kept in tenths (0.1 is 1).    *)
(***************************************************************************)
EXTENDS Integers, Sequences, FiniteSets, TLC

\* ------------------------------------------------------------------ config
MAX_CONTENT_LENGTH == 2000
MAX_RETRIES == 3
CACHE_TIMEOUT == 300
MAX_AGGREGATED_CONTENT == 5000

\* ------------------------------------------------------------------ bounds
MaxTime == 300
MaxCalls == 3
MaxChunks == 2
MaxThreadCalls == 2

\* ----------------------------------------------------------------- strings
Seg(k, name, ver, n) == [k |-> k, name |-> name, ver |-> ver, len |-> n]

Lit(name, n) == IF n = 0 THEN <<>> ELSE <<Seg("lit", name, 0, n)>>

RECURSIVE StrLen(_)
StrLen(s) == IF s = <<>> THEN 0 ELSE Head(s).len + StrLen(Tail(s))

\* the first n characters of s, n >= 0
RECURSIVE Take(_, _)
Take(s, n) ==
    IF s = <<>> \/ n <= 0 THEN <<>>
    ELSE IF Head(s).len <= n
         THEN <<Head(s)>> \o Take(Tail(s), n - Head(s).len)
         ELSE <<[Head(s) EXCEPT !.len = n]>>

\* Python's s[:n], negative n counted from the end
Slice(s, n) ==
    IF n >= 0 THEN Take(s, n)
    ELSE IF StrLen(s) + n > 0 THEN Take(s, StrLen(s) + n) ELSE <<>>

\* ------------------------------------------------------------------- world
\* the clock advances by a little less than the cache timeout, or by all of it
TickSteps == {CACHE_TIMEOUT - 1, CACHE_TIMEOUT}

MainUrl == "u0"
Urls == {"u0", "u1", "u2"}

\* what one HTTP attempt can end in (requests.get + raise_for_status)
Outcomes == {"timeout", "transport", "http2xx", "http3xx", "http4xx", "http5xx"}

\* the documents a site may serve: ver tells them apart, len is the length
\* of title + "\n\n" + body text
Pages == {[ver |-> 1, len |-> 1500], [ver |-> 2, len |-> 2600]}

\* the hrefs of the <a> elements of a served document
PageLinks(url, page) ==
    IF url = MainUrl /\ page.ver = 1 THEN <<"u1", "u2">> ELSE <<>>

VARIABLES
    now,                \* time.time()
    cache,              \* ScraperService.cache: url -> entry
    fcall,              \* the fetch_website_content_and_links call in progress
    pc,                 \* stage of the generate_brochure run
    params,             \* arguments of the run
    main_content,       \* generate_brochure locals
    links,
    selected_links,
    idx,                \* position of the for loop over selected_links
    aggregated_content,
    progress,           \* fractions handed to progress_callback, in tenths
    stream,             \* backend chunks produced / chunks yielded to the caller
    hist,               \* history of the run (observation only)
    calls,              \* number of direct calls of the scraper made so far
    wf,                 \* app.py: the request handler in progress
    current_brochure,   \* app.py: current_brochure["content"]
    exported,           \* app.py: what the last export call exported
    mp,                 \* the fetch_multiple_pages call in progress
    thr                 \* requests running concurrently on the shared cache

\* the state of the application, of fetch_multiple_pages and of concurrent
\* requests
extVars == <<wf, current_brochure, exported, mp, thr>>

vars == <<now, cache, fcall, pc, params, main_content, links, selected_links,
          idx, aggregated_content, progress, stream, hist, calls, extVars>>

\* the state of one run of generate_brochure and of direct calls
pipeVars == <<pc, params, main_content, links, selected_links, idx,
              aggregated_content, progress, stream, hist, calls>>

runVars == <<pc, params, main_content, links, selected_links, idx,
             aggregated_content, progress, stream, hist, calls, extVars>>

\* ------------------------------------------------------------ ScraperService
NoResult == [content |-> <<>>, links |-> <<>>]
NoEntry == [present |-> FALSE, value |-> NoResult, ts |-> 0]
Entry(value, t) == [present |-> TRUE, value |-> value, ts |-> t]

\* ---------------------------------------------------- other callers, at rest
Threads == {1, 2}

NoHandler == [st |-> "idle", kind |-> "none", entered |-> <<>>, passed |-> <<>>,
              brochure_content |-> <<>>, out |-> <<>>, status |-> "none"]
NoExport == [done |-> FALSE, content |-> <<>>, status |-> "none", runAt |-> "Idle"]
NoMulti == [st |-> "none", urls |-> <<>>, i |-> 0, max_length |-> 0,
            aggregated |-> <<>>, result |-> <<>>, fetched |-> <<>>]
NoThread == [st |-> "idle", url |-> MainUrl, local |-> NoEntry, err |-> "none",
             evicted |-> "none", calls |-> 0]

NoCall ==
    [st |-> "none", url |-> MainUrl, only_content |-> FALSE, attempt |-> 0,
     requests |-> 0, waits |-> <<>>, last |-> "none", err |-> "none",
     result |-> NoResult, seen |-> NoEntry, seenAt |-> 0]

NewCall(url, only_content) ==
    [NoCall EXCEPT !.st = "lookup", !.url = url, !.only_content = only_content]

\* faulty variants of the freshness test: the comparison turned round, and
\* an entry of exactly the timeout's age still served
CacheIsFreshInverted(ts, t) == t - ts > CACHE_TIMEOUT
CacheIsFreshInclusive(ts, t) == t - ts <= CACHE_TIMEOUT

\* time.time() - timestamp < Config.CACHE_TIMEOUT
CacheIsFresh(ts, t) == t - ts < CACHE_TIMEOUT

\* faulty variant: the cache is never believed
CacheHitNever(c, url, t) == FALSE

\* _get_from_cache: the value returned (found) and the dictionary afterwards
CacheHit(c, url, t) == c[url].present /\ CacheIsFresh(c[url].ts, t)

\* faulty variant: a lookup sweeps every expired entry out
CacheAfterGetSweep(c, url, t) ==
    [u \in DOMAIN c |-> IF c[u].present /\ ~CacheIsFresh(c[u].ts, t)
                        THEN NoEntry ELSE c[u]]

CacheAfterGet(c, url, t) ==
    IF c[url].present /\ ~CacheIsFresh(c[url].ts, t)
    THEN [c EXCEPT ![url] = NoEntry]
    ELSE c

\* faulty variant: the result is stored under the landing page's key
CacheAfterAddFixedKey(c, url, value, t) == [c EXCEPT ![MainUrl] = Entry(value, t)]

\* _add_to_cache
CacheAfterAdd(c, url, value, t) == [c EXCEPT ![url] = Entry(value, t)]

\* response.raise_for_status(): raises for 4xx and 5xx only
RaiseForStatus(outcome) == outcome \in {"http4xx", "http5xx"}

\* an attempt that ends in one of the two except clauses
AttemptFails(outcome) ==
    outcome \in {"timeout", "transport"} \/ RaiseForStatus(outcome)

\* faulty variant: a failed attempt is always followed by another
ShouldRetryAlways(attempt) == TRUE

\* faulty variant: gives up one attempt early
ShouldRetryShort(attempt) == attempt < MAX_RETRIES - 2

\* if attempt < Config.MAX_RETRIES - 1
ShouldRetry(attempt) == attempt < MAX_RETRIES - 1

\* faulty variant: linear instead of exponential backoff
BackoffLinear(attempt) == 2 * attempt

\* time.sleep(2 ** attempt)
Backoff(attempt) == 2 ^ attempt

\* faulty variant: the text of the page is kept whole
PageContentUncut(url, page) == <<Seg("page", url, page.ver, page.len)>>

\* (title + "\n\n" + text)[:Config.MAX_CONTENT_LENGTH]
PageContent(url, page) ==
    Slice(<<Seg("page", url, page.ver, page.len)>>, MAX_CONTENT_LENGTH)

\* result = (content, links)
FetchResult(url, page, only_content) ==
    [content |-> PageContent(url, page),
     links |-> IF only_content THEN <<>> ELSE PageLinks(url, page)]

\* lines 100-102: the cache is consulted first
CacheLookup ==
    /\ fcall.st = "lookup"
    /\ cache' = CacheAfterGet(cache, fcall.url, now)
    /\ fcall' = IF CacheHit(cache, fcall.url, now)
                THEN [fcall EXCEPT !.st = "returned",
                                   !.result = cache[fcall.url].value,
                                   !.seen = cache[fcall.url], !.seenAt = now]
                ELSE [fcall EXCEPT !.st = "attempt",
                                   !.seen = cache[fcall.url], !.seenAt = now]
    /\ UNCHANGED <<now, runVars>>

\* one pass of the for loop of _fetch_with_retry, and on a response the
\* parsing and caching of lines 107-141
FetchAttempt(outcome, page, parseOk) ==
    /\ fcall.st = "attempt"
    /\ fcall.attempt < MAX_RETRIES
    /\ IF ~AttemptFails(outcome)
       THEN /\ now' = now
            /\ IF parseOk
               THEN /\ cache' = CacheAfterAdd(cache, fcall.url,
                                   FetchResult(fcall.url, page, fcall.only_content), now)
                    /\ fcall' = [fcall EXCEPT
                                   !.st = "returned",
                                   !.requests = @ + 1, !.last = outcome,
                                   !.result = FetchResult(fcall.url, page, fcall.only_content)]
               ELSE /\ cache' = cache
                    /\ fcall' = [fcall EXCEPT !.st = "raised", !.err = "parse",
                                   !.requests = @ + 1, !.last = outcome]
       ELSE IF ShouldRetry(fcall.attempt)
       THEN /\ now' = now + Backoff(fcall.attempt)
            /\ cache' = cache
            /\ fcall' = [fcall EXCEPT !.attempt = @ + 1, !.requests = @ + 1,
                                      !.last = outcome,
                                      !.waits = Append(@, Backoff(fcall.attempt))]
       ELSE /\ now' = now
            /\ cache' = cache
            /\ fcall' = [fcall EXCEPT !.st = "raised", !.err = "fetch",
                                      !.requests = @ + 1, !.last = outcome]
    /\ UNCHANGED runVars

\* time passes between two operations (within one call it passes in the
\* sleeps of _fetch_with_retry); the clock is read by the cache lookup and by
\* _add_to_cache only, so it is advanced right before a lookup
Tick(d) ==
    /\ fcall.st = "lookup"
    /\ now + d <= MaxTime
    /\ now' = now + d
    /\ UNCHANGED <<cache, fcall, runVars>>

\* clear_cache
ClearCache ==
    /\ pc = "Idle"
    /\ fcall.st = "none"
    /\ \E u \in Urls : cache[u].present
    /\ cache' = [u \in Urls |-> NoEntry]
    /\ UNCHANGED <<now, fcall, runVars>>

\* fetch_website_content_and_links(url, only_content) called on the service
\* directly
Call(url, only_content) ==
    /\ pc = "Idle"
    /\ fcall.st = "none"
    /\ calls < MaxCalls
    /\ fcall' = NewCall(url, only_content)
    /\ calls' = calls + 1
    /\ UNCHANGED <<now, cache, pc, params, main_content, links, selected_links,
                   idx, aggregated_content, progress, stream, hist, extVars>>

\* the direct call has returned or raised to its caller
CallDone ==
    /\ pc = "Idle"
    /\ wf.st # "calling"
    /\ fcall.st \in {"returned", "raised"}
    /\ fcall' = NoCall
    /\ UNCHANGED <<now, cache, runVars>>

\* ---------------------------------------------------------------- LLMService
\* ranked links as the backend lists them; L0 has no "url" key, so that
\* link_info.get("url", "") is "" and link_info.get("type", "page") is "page"
L0 == [type |-> "page", url |-> ""]
L1 == [type |-> "about", url |-> "u1"]
L2 == [type |-> "careers", url |-> "u2"]

LinkLists == {<<>>, <<L1, L0, L2>>, <<L1, L2, L1>>}

\* the outcomes of client.chat.completions.create for link selection:
\* the call raises; the content is empty; the content is not JSON; the JSON is
\* an array; an object without "links"; "links": null; "links": a non-empty
\* string; "links": a list
SelectionResponses ==
    {[kind |-> k, items |-> <<>>] :
        k \in {"raise", "empty", "nonjson", "array", "nokey", "links_null", "links_str"}}
    \cup {[kind |-> "links_list", items |-> l] : l \in LinkLists}

\* values select_relevant_links can return: a list, None, a str
ListValue(items) == [kind |-> "list", items |-> items]
NoneValue == [kind |-> "none", items |-> <<>>]
StrValue == [kind |-> "str", items |-> <<>>]

\* lines 77-86: parsed.get("links", []) on the parsed content
ParseSelection(resp) ==
    CASE resp.kind = "raise"      -> ListValue(<<>>)
      [] resp.kind = "empty"      -> ListValue(<<>>)
      [] resp.kind = "nonjson"    -> ListValue(<<>>)
      [] resp.kind = "array"      -> ListValue(<<>>)
      [] resp.kind = "nokey"      -> ListValue(<<>>)
      [] resp.kind = "links_null" -> NoneValue
      [] resp.kind = "links_str"  -> StrValue
      [] OTHER                    -> ListValue(resp.items)

\* select_relevant_links(url, links)
SelectRelevantLinks(ls, resp) ==
    IF ls = <<>> THEN ListValue(<<>>) ELSE ParseSelection(resp)

\* ------------------------------------------------------------ BrochureService
MaxLengths == {1000, 5000}

TypeLen(t) ==
    CASE t = "about" -> 5 [] t = "careers" -> 7 [] OTHER -> 4

\* f"## Landing Page:\n\n{main_content}\n\n## Relevant Pages:\n\n"
LandingSection(content) ==
    Lit("landing", 18) \o content \o Lit("relevant", 22)

\* f"\n### {link_type.title()}\n{content}\n"
LinkSection(type, content) ==
    <<Seg("head", type, 0, 5 + TypeLen(type) + 1)>> \o content \o Lit("nl", 1)

\* faulty variant: the buffer is handed on uncut
TruncateNothing(s, max_content_length) == s

\* aggregated_content[:max_content_length]
Truncate(s, max_content_length) == Slice(s, max_content_length)

NoParams == [cb |-> FALSE, max_content_length |-> 0, given |-> FALSE, links |-> <<>>]
NoStream == [produced |-> <<>>, yielded |-> <<>>, pending |-> 0]
NoHist ==
    [failedAt |-> "", fetchedOk |-> <<>>, fetchFailed |-> <<>>, secFetches |-> 0,
     selCalls |-> 0, backendCalls |-> 0, selResp |-> "none",
     untruncated |-> <<>>, handed |-> <<>>, started |-> <<>>, error |-> <<>>,
     cause |-> "none"]

\* faulty variants: the secondary-fetch step reports less than the step
\* before it; the last step reports less than the whole
FractionOutOfOrder(step) ==
    CASE step = "main"      -> 1
      [] step = "select"    -> 3
      [] step = "secondary" -> 2
      [] step = "generate"  -> 7
      [] step = "complete"  -> 10
      [] OTHER              -> 0

FractionNeverWhole(step) ==
    CASE step = "main"      -> 1
      [] step = "select"    -> 3
      [] step = "secondary" -> 5
      [] step = "generate"  -> 7
      [] step = "complete"  -> 9
      [] OTHER              -> 0

\* the fraction of each progress_callback call, in tenths
Fraction(step) ==
    CASE step = "main"      -> 1
      [] step = "select"    -> 3
      [] step = "secondary" -> 5
      [] step = "generate"  -> 7
      [] step = "complete"  -> 10
      [] OTHER              -> 0

\* progress_callback(message, fraction), when a callback was given
Emit(p, fraction) == IF params.cb THEN Append(p, fraction) ELSE p

\* the except clause of lines 108-112
Fail(stage) ==
    /\ pc' = "Failed"
    /\ progress' = Emit(progress, Fraction("error"))
    /\ hist' = [hist EXCEPT !.failedAt = stage]

\* faulty variant: an empty selection is treated as an error
EnterSecondaryRejectsEmpty(sel, content, prog, h) ==
    IF sel.kind = "none" \/ sel.items = <<>>
    THEN /\ pc' = "Failed"
         /\ progress' = IF params.cb THEN Append(prog, Fraction("error")) ELSE prog
         /\ hist' = [h EXCEPT !.failedAt = "FetchingSecondary"]
         /\ UNCHANGED <<aggregated_content, idx>>
    ELSE /\ pc' = "FetchingSecondary"
         /\ progress' = IF params.cb THEN Append(prog, Fraction("secondary")) ELSE prog
         /\ hist' = h
         /\ aggregated_content' = LandingSection(content)
         /\ idx' = 1

\* lines 64-69 for a value of selected_links: len() of None raises, with a
\* callback in the f-string and without one in the for statement
EnterSecondary(sel, content, prog, h) ==
    IF sel.kind = "none"
    THEN /\ pc' = "Failed"
         /\ progress' = IF params.cb THEN Append(prog, Fraction("error")) ELSE prog
         /\ hist' = [h EXCEPT !.failedAt = "FetchingSecondary"]
         /\ UNCHANGED <<aggregated_content, idx>>
    ELSE /\ pc' = "FetchingSecondary"
         /\ progress' = IF params.cb THEN Append(prog, Fraction("secondary")) ELSE prog
         /\ hist' = h
         /\ aggregated_content' = LandingSection(content)
         /\ idx' = 1

\* generate_brochure is called and runs up to the main-page fetch
StartRun(cb, maxlen, given, ls) ==
    /\ pc = "Idle"
    /\ fcall.st = "none"
    /\ params' = [cb |-> cb, max_content_length |-> maxlen, given |-> given, links |-> ls]
    /\ progress' = IF cb THEN <<Fraction("main")>> ELSE <<>>
    /\ pc' = "FetchingMain"
    /\ fcall' = NewCall(MainUrl, FALSE)
    /\ UNCHANGED <<now, cache, main_content, links, selected_links, idx,
                   aggregated_content, stream, hist, calls, extVars>>

\* faulty variant: links are selected whether or not some were supplied
MainFetchedAlwaysSelects ==
    /\ pc = "FetchingMain"
    /\ fcall.st = "returned"
    /\ main_content' = fcall.result.content
    /\ links' = fcall.result.links
    /\ fcall' = NoCall
    /\ pc' = "SelectingLinks"
    /\ progress' = Emit(progress, Fraction("select"))
    /\ UNCHANGED <<selected_links, aggregated_content, idx, hist>>
    /\ UNCHANGED <<now, cache, params, stream, calls, extVars>>

\* line 55 returns; lines 57-69
MainFetched ==
    /\ pc = "FetchingMain"
    /\ fcall.st = "returned"
    /\ main_content' = fcall.result.content
    /\ links' = fcall.result.links
    /\ fcall' = NoCall
    /\ IF params.given
       THEN /\ selected_links' = ListValue(params.links)
            /\ EnterSecondary(ListValue(params.links), fcall.result.content, progress, hist)
       ELSE /\ pc' = "SelectingLinks"
            /\ progress' = Emit(progress, Fraction("select"))
            /\ UNCHANGED <<selected_links, aggregated_content, idx, hist>>
    /\ UNCHANGED <<now, cache, params, stream, calls, extVars>>

\* faulty variant: the run goes on without the landing page
MainFetchFailedGoesOn ==
    /\ pc = "FetchingMain"
    /\ fcall.st = "raised"
    /\ fcall' = NoCall
    /\ pc' = "SelectingLinks"
    /\ progress' = Emit(progress, Fraction("select"))
    /\ UNCHANGED <<now, cache, params, main_content, links, selected_links, idx,
                   aggregated_content, stream, hist, calls, extVars>>

\* line 55 raises
MainFetchFailed ==
    /\ pc = "FetchingMain"
    /\ fcall.st = "raised"
    /\ fcall' = NoCall
    /\ Fail("FetchingMain")
    /\ UNCHANGED <<now, cache, params, main_content, links, selected_links, idx,
                   aggregated_content, stream, calls, extVars>>

\* line 62: select_relevant_links with the backend's response, then lines 64-69
SelectLinks(resp) ==
    /\ pc = "SelectingLinks"
    /\ selected_links' = SelectRelevantLinks(links, resp)
    /\ EnterSecondary(SelectRelevantLinks(links, resp), main_content, progress,
                      [hist EXCEPT !.selCalls = @ + 1,
                                   !.backendCalls = IF links = <<>> THEN @ ELSE @ + 1,
                                   !.selResp = IF links = <<>> THEN @ ELSE resp.kind])
    /\ UNCHANGED <<now, cache, fcall, params, main_content, links, stream, calls, extVars>>

\* lines 71-80: the next element of selected_links
SecondaryStep ==
    /\ pc = "FetchingSecondary"
    /\ fcall.st = "none"
    /\ \/ /\ selected_links.kind = "str"
          /\ Fail("FetchingSecondary")
          /\ UNCHANGED <<fcall, idx>>
       \/ /\ selected_links.kind = "list"
          /\ idx <= Len(selected_links.items)
          /\ IF selected_links.items[idx].url = ""
             THEN /\ idx' = idx + 1
                  /\ UNCHANGED <<fcall, hist>>
             ELSE /\ fcall' = NewCall(selected_links.items[idx].url, TRUE)
                  /\ hist' = [hist EXCEPT !.secFetches = @ + 1,
                                           !.started = Append(@, idx)]
                  /\ idx' = idx
          /\ UNCHANGED <<pc, progress>>
    /\ UNCHANGED <<now, cache, params, main_content, links, selected_links,
                   aggregated_content, stream, calls, extVars>>

\* faulty variant: the section is put in front of the buffer
SecondaryFetchedPrepends ==
    /\ pc = "FetchingSecondary"
    /\ fcall.st = "returned"
    /\ aggregated_content' =
           LinkSection(selected_links.items[idx].type, fcall.result.content)
              \o aggregated_content
    /\ hist' = [hist EXCEPT !.fetchedOk = Append(@, idx)]
    /\ idx' = idx + 1
    /\ fcall' = NoCall
    /\ UNCHANGED <<now, cache, pc, params, main_content, links, selected_links,
                   progress, stream, calls, extVars>>

\* line 81: the section of a fetched page is appended
SecondaryFetched ==
    /\ pc = "FetchingSecondary"
    /\ fcall.st = "returned"
    /\ aggregated_content' = aggregated_content \o
           LinkSection(selected_links.items[idx].type, fcall.result.content)
    /\ hist' = [hist EXCEPT !.fetchedOk = Append(@, idx)]
    /\ idx' = idx + 1
    /\ fcall' = NoCall
    /\ UNCHANGED <<now, cache, pc, params, main_content, links, selected_links,
                   progress, stream, calls, extVars>>

\* faulty variant: the failure of one link ends the run
SecondaryFetchFailedAborts ==
    /\ pc = "FetchingSecondary"
    /\ fcall.st = "raised"
    /\ fcall' = NoCall
    /\ Fail("FetchingSecondary")
    /\ UNCHANGED <<now, cache, params, main_content, links, selected_links, idx,
                   aggregated_content, stream, calls, extVars>>

\* lines 82-84: the failure of one link is printed and the loop goes on
SecondaryFetchFailed ==
    /\ pc = "FetchingSecondary"
    /\ fcall.st = "raised"
    /\ hist' = [hist EXCEPT !.fetchFailed = Append(@, idx)]
    /\ idx' = idx + 1
    /\ fcall' = NoCall
    /\ UNCHANGED <<now, cache, pc, params, main_content, links, selected_links,
                   aggregated_content, progress, stream, calls, extVars>>

\* lines 86-101: truncation, progress 0.7, the streaming call
TruncateAndGenerate ==
    /\ pc = "FetchingSecondary"
    /\ fcall.st = "none"
    /\ selected_links.kind = "list"
    /\ idx > Len(selected_links.items)
    /\ aggregated_content' = Truncate(aggregated_content, params.max_content_length)
    /\ hist' = [hist EXCEPT
                   !.untruncated = aggregated_content,
                   !.handed = Truncate(aggregated_content, params.max_content_length)]
    /\ progress' = Emit(progress, Fraction("generate"))
    /\ pc' = "Streaming"
    /\ UNCHANGED <<now, cache, fcall, params, main_content, links, selected_links,
                   idx, stream, calls, extVars>>

\* faulty variant: the next chunk is requested while the previous one has
\* not been handed to the caller yet
StreamChunkAhead(empty) ==
    /\ pc = "Streaming"
    /\ Len(stream.produced) < MaxChunks
    /\ stream' = [stream EXCEPT
                     !.produced = Append(@, [id |-> Len(stream.produced) + 1,
                                             empty |-> empty]),
                     !.pending = IF empty THEN @ ELSE Len(stream.produced) + 1]
    /\ UNCHANGED <<now, cache, fcall, pc, params, main_content, links,
                   selected_links, idx, aggregated_content, progress, hist, calls, extVars>>

\* llm_service lines 171-173: the next event of the backend stream is asked
\* for; its delta content, when not empty, is the chunk to yield
StreamChunk(empty) ==
    /\ pc = "Streaming"
    /\ stream.pending = 0
    /\ Len(stream.produced) < MaxChunks
    /\ stream' = [stream EXCEPT
                     !.produced = Append(@, [id |-> Len(stream.produced) + 1,
                                             empty |-> empty]),
                     !.pending = IF empty THEN 0 ELSE Len(stream.produced) + 1]
    /\ UNCHANGED <<now, cache, fcall, pc, params, main_content, links,
                   selected_links, idx, aggregated_content, progress, hist, calls, extVars>>

\* what line 102 hands to the caller: the chunk as it came
Yielded(yielded, chunk) == Append(yielded, chunk)

\* line 102, yield chunk: the caller has the chunk and asks for the next
YieldChunk ==
    /\ pc = "Streaming"
    /\ wf.st = "idle"
    /\ stream.pending # 0
    /\ stream' = [stream EXCEPT !.yielded = Yielded(@, stream.pending),
                                !.pending = 0]
    /\ UNCHANGED <<now, cache, fcall, pc, params, main_content, links,
                   selected_links, idx, aggregated_content, progress, hist, calls, extVars>>

\* the stream is exhausted: lines 104-106
StreamEnd ==
    /\ pc = "Streaming"
    /\ stream.pending = 0
    /\ pc' = "Complete"
    /\ progress' = Emit(progress, Fraction("complete"))
    /\ UNCHANGED <<now, cache, fcall, params, main_content, links, selected_links,
                   idx, aggregated_content, stream, hist, calls, extVars>>

\* the messages a failing backend may give
BackendErrors == {"rate limit", "connection reset"}

\* faulty variant: the message of the cause is dropped
WrapErrorBare(prefix, msg) == <<prefix>>

\* raise Exception(f"{prefix}{str(e)}")
WrapError(prefix, msg) == <<prefix>> \o msg

\* the backend call or the stream raises: llm_service 175-176, then 108-112
StreamError(msg) ==
    /\ pc = "Streaming"
    /\ stream.pending = 0
    /\ pc' = "Failed"
    /\ progress' = Emit(progress, Fraction("error"))
    /\ hist' = [hist EXCEPT
                   !.failedAt = "Streaming",
                   !.cause = msg,
                   !.error = WrapError("Error generating brochure: ",
                                WrapError("Error generating brochure stream: ", <<msg>>))]
    /\ UNCHANGED <<now, cache, fcall, params, main_content, links, selected_links,
                   idx, aggregated_content, stream, calls, extVars>>

\* ------------------------------------------------------------- specification
Init ==
    /\ now = 0
    /\ cache = [u \in Urls |-> NoEntry]
    /\ fcall = NoCall
    /\ pc = "Idle"
    /\ params = NoParams
    /\ main_content = <<>>
    /\ links = <<>>
    /\ selected_links = ListValue(<<>>)
    /\ idx = 0
    /\ aggregated_content = <<>>
    /\ progress = <<>>
    /\ stream = NoStream
    /\ hist = NoHist
    /\ calls = 0
    /\ wf = NoHandler
    /\ current_brochure = <<>>
    /\ exported = NoExport
    /\ mp = NoMulti
    /\ thr = [t \in Threads |-> NoThread]

Next ==
    \/ \E cb \in BOOLEAN, maxlen \in MaxLengths, given \in BOOLEAN, ls \in LinkLists :
          StartRun(cb, maxlen, given, IF given THEN ls ELSE <<>>)
    \/ CacheLookup
    \/ \E o \in Outcomes, p \in Pages, ok \in BOOLEAN : FetchAttempt(o, p, ok)
    \/ \E d \in TickSteps : Tick(d)
    \/ MainFetched
    \/ MainFetchFailed
    \/ \E r \in SelectionResponses : SelectLinks(r)
    \/ SecondaryStep
    \/ SecondaryFetched
    \/ SecondaryFetchFailed
    \/ TruncateAndGenerate
    \/ \E e \in BOOLEAN : StreamChunk(e)
    \/ YieldChunk
    \/ StreamEnd
    \/ \E m \in BackendErrors : StreamError(m)

Spec == Init /\ [][Next]_vars

\* the responses and pages of the site while the application is in use
AppOutcomes == {"http2xx", "http5xx"}

\* One run with every step that can be taken taken in the end: each network
\* attempt ends (requests.get has a timeout), the backend stream ends or
\* fails, and the caller goes on iterating the generator.
NextLive ==
    \/ \E cb \in BOOLEAN, maxlen \in MaxLengths, given \in BOOLEAN, ls \in LinkLists :
          StartRun(cb, maxlen, given, IF given THEN ls ELSE <<>>)
    \/ CacheLookup
    \/ \E o \in AppOutcomes, p \in Pages, ok \in BOOLEAN : FetchAttempt(o, p, ok)
    \/ MainFetched
    \/ MainFetchFailed
    \/ \E r \in SelectionResponses : SelectLinks(r)
    \/ SecondaryStep
    \/ SecondaryFetched
    \/ SecondaryFetchFailed
    \/ TruncateAndGenerate
    \/ \E e \in BOOLEAN : StreamChunk(e)
    \/ YieldChunk
    \/ StreamEnd
    \/ \E m \in BackendErrors : StreamError(m)

SpecLive == Init /\ [][NextLive]_vars /\ WF_vars(NextLive)

\* the scraper service used on its own: calls one after the other, time
\* passing in between
ScraperUrls == {"u0", "u1"}

NextScraper ==
    \/ \E u \in ScraperUrls, oc \in BOOLEAN : Call(u, oc)
    \/ CacheLookup
    \/ \E o \in Outcomes, p \in Pages, ok \in BOOLEAN : FetchAttempt(o, p, ok)
    \/ \E d \in TickSteps : Tick(d)
    \/ CallDone
    \/ ClearCache

SpecScraper == Init /\ [][NextScraper]_vars

\* ------------------------------------------------------ fetch_multiple_pages
\* the lists of URLs and the max_length arguments of the calls
UrlLists == {<<"u1", "u2">>, <<"u1", "u2", "u1">>}
MultiMaxLengths == {0, 1000, 1501}

\* "\n\n"
Sep == Lit("sep", 2)

\* str.strip() of a buffer of pages and separators
RECURSIVE StripLeft(_)
StripLeft(s) ==
    IF s # <<>> /\ Head(s).name = "sep" THEN StripLeft(Tail(s)) ELSE s

RECURSIVE StripRight(_)
StripRight(s) ==
    IF s # <<>> /\ s[Len(s)].name = "sep"
    THEN StripRight(SubSeq(s, 1, Len(s) - 1)) ELSE s

Strip(s) == StripRight(StripLeft(s))

\* faulty variant: the page is appended whole
AppendPageUncut(aggregated, content, max_length) == aggregated \o content \o Sep

\* lines 172-173: remaining = max_length - len(aggregated);
\* aggregated += content[:remaining] + "\n\n"
AppendPage(aggregated, content, max_length) ==
    aggregated \o Slice(content, max_length - StrLen(aggregated)) \o Sep

\* fetch_multiple_pages(urls, max_length) is called: lines 161-164
MpCall(urls, given, n) ==
    /\ pc = "Idle"
    /\ fcall.st = "none"
    /\ mp.st = "none"
    /\ mp' = [NoMulti EXCEPT
                 !.st = "loop", !.urls = urls, !.i = 1,
                 !.max_length = IF given THEN n ELSE MAX_AGGREGATED_CONTENT]
    /\ UNCHANGED <<now, cache, fcall, pipeVars, wf, current_brochure, exported, thr>>

\* lines 166-171: the next URL, unless the buffer is full
MpStep ==
    /\ mp.st = "loop"
    /\ mp.i <= Len(mp.urls)
    /\ StrLen(mp.aggregated) < mp.max_length
    /\ fcall' = NewCall(mp.urls[mp.i], TRUE)
    /\ mp' = [mp EXCEPT !.st = "fetching"]
    /\ UNCHANGED <<now, cache, pipeVars, wf, current_brochure, exported, thr>>

\* lines 172-173: the page, cut to what remains of the budget, is appended
MpFetched ==
    /\ mp.st = "fetching"
    /\ fcall.st = "returned"
    /\ mp' = [mp EXCEPT
                 !.st = "loop", !.i = @ + 1,
                 !.aggregated = AppendPage(@, fcall.result.content, mp.max_length),
                 !.fetched = Append(@, mp.i)]
    /\ fcall' = NoCall
    /\ UNCHANGED <<now, cache, pipeVars, wf, current_brochure, exported, thr>>

\* faulty variant: a page that fails ends the aggregation
MpFailedAborts ==
    /\ mp.st = "fetching"
    /\ fcall.st = "raised"
    /\ mp' = [mp EXCEPT !.st = "done", !.result = Strip(mp.aggregated)]
    /\ fcall' = NoCall
    /\ UNCHANGED <<now, cache, pipeVars, wf, current_brochure, exported, thr>>

\* lines 174-177: a page that fails is left out
MpFailed ==
    /\ mp.st = "fetching"
    /\ fcall.st = "raised"
    /\ mp' = [mp EXCEPT !.st = "loop", !.i = @ + 1]
    /\ fcall' = NoCall
    /\ UNCHANGED <<now, cache, pipeVars, wf, current_brochure, exported, thr>>

\* the loop ends, by the break of line 168 or with the list: line 179
MpReturn ==
    /\ mp.st = "loop"
    /\ mp.i > Len(mp.urls) \/ StrLen(mp.aggregated) >= mp.max_length
    /\ mp' = [mp EXCEPT !.st = "done", !.result = Strip(mp.aggregated)]
    /\ UNCHANGED <<now, cache, fcall, pipeVars, wf, current_brochure, exported, thr>>

\* fetch_multiple_pages on its own
NextMulti ==
    \/ \E us \in UrlLists, given \in BOOLEAN, n \in MultiMaxLengths : MpCall(us, given, n)
    \/ MpStep
    \/ CacheLookup
    \/ \E o \in Outcomes, p \in Pages, ok \in BOOLEAN : FetchAttempt(o, p, ok)
    \/ \E d \in TickSteps : Tick(d)
    \/ MpFetched
    \/ MpFailed
    \/ MpReturn

SpecMulti == Init /\ [][NextMulti]_vars

\* one aggregation per behaviour: a run of generate_brochure, or a call of
\* fetch_multiple_pages
NextAggregate ==
    \/ \E cb \in BOOLEAN, maxlen \in MaxLengths, given \in BOOLEAN, ls \in LinkLists :
          mp.st = "none" /\ StartRun(cb, maxlen, given, IF given THEN ls ELSE <<>>)
    \/ CacheLookup
    \/ \E o \in Outcomes, p \in Pages, ok \in BOOLEAN : FetchAttempt(o, p, ok)
    \/ \E d \in TickSteps : Tick(d)
    \/ MainFetched
    \/ MainFetchFailed
    \/ \E r \in SelectionResponses : SelectLinks(r)
    \/ SecondaryStep
    \/ SecondaryFetched
    \/ SecondaryFetchFailed
    \/ TruncateAndGenerate
    \/ \E e \in BOOLEAN : StreamChunk(e)
    \/ YieldChunk
    \/ StreamEnd
    \/ \E m \in BackendErrors : StreamError(m)
    \/ \E us \in UrlLists, given \in BOOLEAN, n \in MultiMaxLengths : MpCall(us, given, n)
    \/ MpStep
    \/ MpFetched
    \/ MpFailed
    \/ MpReturn

SpecAggregate == Init /\ [][NextAggregate]_vars

\* ------------------------------------------------------------------ app.py
\* What the user types into the URL box, as a sequence of tokens: "sp" is
\* white space, "example.com" a host name with a dot, "localhost" one without.
EnteredUrls ==
    { <<>>, <<"sp">>, <<"localhost">>, <<"http://">>, <<"ftp://", "example.com">>,
      <<"example.com">>, <<"sp", "example.com", "sp">>,
      <<"sp", "http://", "example.com">>, <<"https://", "example.com", "sp">> }

\* the lengths of the company names typed, white space stripped
NameLengths == {0, 1, 4, 101}

\* str.strip() of an entered URL
RECURSIVE TrimLeft(_)
TrimLeft(u) == IF u # <<>> /\ Head(u) = "sp" THEN TrimLeft(Tail(u)) ELSE u

RECURSIVE TrimRight(_)
TrimRight(u) ==
    IF u # <<>> /\ u[Len(u)] = "sp" THEN TrimRight(SubSeq(u, 1, Len(u) - 1)) ELSE u

Trim(u) == TrimRight(TrimLeft(u))

\* url.startswith(('http://', 'https://'))
StartsWithScheme(u) == u # <<>> /\ Head(u) \in {"http://", "https://"}

\* validators.py lines 23-24
WithScheme(u) == IF StartsWithScheme(u) THEN u ELSE <<"https://">> \o u

\* urlparse(url).netloc of a URL that starts with http:// or https://: what
\* follows the protocol, up to the next slash
Netloc(u) ==
    IF Len(u) < 2 THEN ""
    ELSE IF u[2] \in {"http://", "https://", "ftp://"} THEN "scheme:"
    ELSE u[2]

\* faulty variant: the URL is returned as it was entered
ValidateUrlAsEntered(entered) ==
    IF entered = <<>> THEN [ok |-> FALSE, url |-> <<>>]
    ELSE LET url == WithScheme(Trim(entered))
         IN IF Netloc(url) = "" \/ Netloc(url) # "example.com"
            THEN [ok |-> FALSE, url |-> <<>>]
            ELSE [ok |-> TRUE, url |-> entered]

\* validate_url: (is_valid, normalized url)
ValidateUrl(entered) ==
    IF entered = <<>> THEN [ok |-> FALSE, url |-> <<>>]
    ELSE LET url == WithScheme(Trim(entered))
         IN IF Netloc(url) = "" \/ Netloc(url) # "example.com"
            THEN [ok |-> FALSE, url |-> <<>>]
            ELSE [ok |-> TRUE, url |-> url]

\* validate_company_name, on the length of the stripped name
ValidateCompanyName(n) == ~(n < 2) /\ ~(n > 100)

\* generate_brochure_workflow up to its first yield: lines 59-70
WfGenerate(n, entered) ==
    /\ wf.st = "idle"
    /\ pc = "Idle"
    /\ fcall.st = "none"
    /\ wf' = IF ValidateCompanyName(n) /\ ValidateUrl(entered).ok
             THEN [NoHandler EXCEPT !.st = "calling", !.kind = "generate",
                                    !.entered = entered,
                                    !.passed = ValidateUrl(entered).url,
                                    !.status = "starting"]
             ELSE [NoHandler EXCEPT !.st = "done", !.kind = "generate",
                                    !.entered = entered, !.status = "error"]
    /\ UNCHANGED <<now, cache, fcall, pipeVars, current_brochure, exported, mp, thr>>

\* lines 80-89: generate_brochure is called with the normalized URL and the
\* progress callback, and without links
WfCall(maxlen) ==
    /\ wf.st = "calling"
    /\ wf.kind = "generate"
    /\ StartRun(TRUE, maxlen, FALSE, <<>>)

\* lines 90-92: a chunk arrives: it is added to the text, the text is stored
\* in current_brochure and shown
WfChunk ==
    /\ wf.st = "calling"
    /\ pc = "Streaming"
    /\ stream.pending # 0
    /\ stream' = [stream EXCEPT !.yielded = Yielded(@, stream.pending),
                                !.pending = 0]
    /\ wf' = [wf EXCEPT !.brochure_content = Append(@, stream.pending),
                        !.out = Append(wf.brochure_content, stream.pending),
                        !.status = "generating"]
    /\ current_brochure' = Append(wf.brochure_content, stream.pending)
    /\ UNCHANGED <<now, cache, fcall, pc, params, main_content, links,
                   selected_links, idx, aggregated_content, progress, hist, calls,
                   exported, mp, thr>>

\* line 95: the generator is exhausted
WfFinish ==
    /\ wf.st = "calling"
    /\ pc = "Complete"
    /\ wf' = [wf EXCEPT !.st = "done", !.out = wf.brochure_content,
                        !.status = "success"]
    /\ UNCHANGED <<now, cache, fcall, pipeVars, current_brochure, exported, mp, thr>>

\* lines 97-99: generate_brochure raised
WfError ==
    /\ wf.st = "calling"
    /\ pc = "Failed"
    /\ wf' = [wf EXCEPT !.st = "done", !.out = <<>>, !.status = "error"]
    /\ UNCHANGED <<now, cache, fcall, pipeVars, current_brochure, exported, mp, thr>>

\* get_link_preview up to the call of get_link_suggestions: lines 109-118,
\* and brochure_service line 129
WfPreview(entered) ==
    /\ wf.st = "idle"
    /\ pc = "Idle"
    /\ fcall.st = "none"
    /\ IF ValidateUrl(entered).ok
       THEN /\ wf' = [NoHandler EXCEPT !.st = "calling", !.kind = "preview",
                                       !.entered = entered,
                                       !.passed = ValidateUrl(entered).url]
            /\ fcall' = NewCall(MainUrl, FALSE)
       ELSE /\ wf' = [NoHandler EXCEPT !.st = "done", !.kind = "preview",
                                       !.entered = entered, !.status = "error"]
            /\ fcall' = fcall
    /\ UNCHANGED <<now, cache, pipeVars, current_brochure, exported, mp, thr>>

\* get_link_suggestions once the fetch of line 129 has returned or raised:
\* the pair (selected_links, error message) of lines 131-143
GetLinkSuggestions(fetched, ls, resp) ==
    IF ~fetched
    THEN [links |-> ListValue(<<>>), error |-> "Error getting link suggestions"]
    ELSE IF ls = <<>>
    THEN [links |-> ListValue(<<>>), error |-> "No links found on the page"]
    ELSE LET sel == SelectRelevantLinks(ls, resp)
         IN IF sel.kind = "none" \/ (sel.kind = "list" /\ sel.items = <<>>)
            THEN [links |-> ListValue(<<>>), error |-> "No relevant links identified"]
            ELSE [links |-> sel, error |-> ""]

\* the status get_link_preview returns for it, app.py lines 120-140: an error
\* message is shown; link.get on the characters of a str raises and is shown
PreviewStatus(fetched, ls, resp) ==
    LET got == GetLinkSuggestions(fetched, ls, resp)
    IN IF got.error # "" THEN "error"
       ELSE IF got.links.kind = "str" THEN "error"
       ELSE "found"

\* the fetch of the preview has ended; selection, and the status and
\* choices returned
WfPreviewDone(resp) ==
    /\ wf.st = "calling"
    /\ wf.kind = "preview"
    /\ fcall.st \in {"returned", "raised"}
    /\ wf' = [wf EXCEPT
                 !.st = "done",
                 !.status = PreviewStatus(fcall.st = "returned", fcall.result.links, resp)]
    /\ fcall' = NoCall
    /\ UNCHANGED <<now, cache, pipeVars, current_brochure, exported, mp, thr>>

\* export_as_pdf / export_as_html, called at any moment; ok tells whether
\* the export service wrote the file
Export(fmt, ok) ==
    /\ exported' =
          IF current_brochure = <<>>
          THEN [done |-> TRUE, content |-> <<>>, status |-> "no brochure", runAt |-> pc]
          ELSE IF ok
          THEN [done |-> TRUE, content |-> current_brochure, status |-> "exported",
                runAt |-> pc]
          ELSE [done |-> TRUE, content |-> <<>>, status |-> "error", runAt |-> pc]
    /\ exported' # exported
    /\ UNCHANGED <<now, cache, fcall, pipeVars, wf, current_brochure, mp, thr>>

NextApp ==
    \/ \E n \in NameLengths, u \in EnteredUrls : WfGenerate(n, u)
    \/ \E maxlen \in MaxLengths : WfCall(maxlen)
    \/ CacheLookup
    \/ \E o \in AppOutcomes, p \in Pages, ok \in BOOLEAN : FetchAttempt(o, p, ok)
    \/ MainFetched
    \/ MainFetchFailed
    \/ \E r \in SelectionResponses : SelectLinks(r)
    \/ SecondaryStep
    \/ SecondaryFetched
    \/ SecondaryFetchFailed
    \/ TruncateAndGenerate
    \/ \E e \in BOOLEAN : StreamChunk(e)
    \/ WfChunk
    \/ StreamEnd
    \/ \E m \in BackendErrors : StreamError(m)
    \/ WfFinish
    \/ WfError
    \/ \E u \in EnteredUrls : WfPreview(u)
    \/ \E r \in SelectionResponses : WfPreviewDone(r)

SpecApp == Init /\ [][NextApp]_vars

\* the URLs entered while exports are made
ExportUrls == {<<>>, <<"example.com">>}

\* the brochure workflow with exports made at any moment of it
NextExport ==
    \/ \E n \in NameLengths, u \in ExportUrls : WfGenerate(n, u)
    \/ \E maxlen \in MaxLengths : WfCall(maxlen)
    \/ CacheLookup
    \/ \E o \in AppOutcomes, p \in Pages, ok \in BOOLEAN : FetchAttempt(o, p, ok)
    \/ MainFetched
    \/ MainFetchFailed
    \/ \E r \in SelectionResponses : SelectLinks(r)
    \/ SecondaryStep
    \/ SecondaryFetched
    \/ SecondaryFetchFailed
    \/ TruncateAndGenerate
    \/ \E e \in BOOLEAN : StreamChunk(e)
    \/ WfChunk
    \/ StreamEnd
    \/ \E m \in BackendErrors : StreamError(m)
    \/ WfFinish
    \/ WfError
    \/ \E f \in {"pdf", "html"}, ok \in BOOLEAN : Export(f, ok)

SpecExport == Init /\ [][NextExport]_vars

\* the page of the landing URL that has links, and a selection made of them
SharedPages == {[ver |-> 1, len |-> 1500]}
SharedResponses == {[kind |-> "empty", items |-> <<>>],
                    [kind |-> "links_list", items |-> <<L1, L0, L2>>]}

\* the landing page is fetched content-only on the shared service (as
\* fetch_multiple_pages does), and a run or a link preview follows
NextShared ==
    \/ Call(MainUrl, TRUE)
    \/ CallDone
    \/ CacheLookup
    \/ \E o \in AppOutcomes, p \in SharedPages, ok \in BOOLEAN : FetchAttempt(o, p, ok)
    \/ \E d \in TickSteps : Tick(d)
    \/ \E maxlen \in MaxLengths : StartRun(FALSE, maxlen, FALSE, <<>>)
    \/ MainFetched
    \/ MainFetchFailed
    \/ \E r \in SharedResponses : SelectLinks(r)
    \/ SecondaryStep
    \/ SecondaryFetched
    \/ SecondaryFetchFailed
    \/ TruncateAndGenerate
    \/ \E e \in BOOLEAN : StreamChunk(e)
    \/ YieldChunk
    \/ StreamEnd
    \/ \E m \in BackendErrors : StreamError(m)
    \/ \E u \in ExportUrls : WfPreview(u)
    \/ \E r \in SharedResponses : WfPreviewDone(r)

SpecShared == Init /\ [][NextShared]_vars

\* ------------------------------------------- concurrent requests on the cache
\* Requests of several handler threads on the one ScraperService of app.py:
\* nothing in _get_from_cache or _add_to_cache holds a lock, so each of their
\* statements is a step of its own, and the steps of the threads interleave.

\* a thread enters fetch_website_content_and_links(url): line 100
TStart(t, url) ==
    /\ thr[t].st = "idle"
    /\ thr[t].calls < MaxThreadCalls
    /\ thr' = [thr EXCEPT ![t] = [NoThread EXCEPT !.st = "check", !.url = url,
                                                  !.calls = thr[t].calls + 1]]
    /\ UNCHANGED <<now, cache, fcall, pipeVars, wf, current_brochure, exported, mp>>

\* line 31: if url in self.cache
TCheck(t) ==
    /\ thr[t].st = "check"
    /\ thr' = [thr EXCEPT ![t].st = IF cache[thr[t].url].present
                                    THEN "read" ELSE "fetch"]
    /\ UNCHANGED <<now, cache, fcall, pipeVars, wf, current_brochure, exported, mp>>

\* line 32: content, timestamp = self.cache[url]; KeyError when the key has
\* gone, which leaves the call through line 100, outside the try of line 104
TRead(t) ==
    /\ thr[t].st = "read"
    /\ thr' = IF cache[thr[t].url].present
              THEN [thr EXCEPT ![t].st = "test", ![t].local = cache[thr[t].url]]
              ELSE [thr EXCEPT ![t].st = "raised", ![t].err = "KeyError"]
    /\ UNCHANGED <<now, cache, fcall, pipeVars, wf, current_brochure, exported, mp>>

\* lines 33-34: the age of the entry that was read
TTest(t) ==
    /\ thr[t].st = "test"
    /\ thr' = [thr EXCEPT ![t].st = IF CacheIsFresh(thr[t].local.ts, now)
                                    THEN "returned" ELSE "del"]
    /\ UNCHANGED <<now, cache, fcall, pipeVars, wf, current_brochure, exported, mp>>

\* line 37: del self.cache[url], whatever entry the key holds by now
TDel(t) ==
    /\ thr[t].st = "del"
    /\ IF cache[thr[t].url].present
       THEN /\ cache' = [cache EXCEPT ![thr[t].url] = NoEntry]
            /\ thr' = [thr EXCEPT
                          ![t].st = "fetch",
                          ![t].evicted = IF CacheIsFresh(cache[thr[t].url].ts, now)
                                         THEN "fresh" ELSE "expired"]
       ELSE /\ cache' = cache
            /\ thr' = [thr EXCEPT ![t].st = "raised", ![t].err = "KeyError"]
    /\ UNCHANGED <<now, fcall, pipeVars, wf, current_brochure, exported, mp>>

\* lines 104-144: the page is fetched and parsed and the result stored by
\* the one assignment of _add_to_cache, or the call raises
TFetch(t, ok, page) ==
    /\ thr[t].st = "fetch"
    /\ IF ok
       THEN /\ cache' = CacheAfterAdd(cache, thr[t].url,
                                      FetchResult(thr[t].url, page, FALSE), now)
            /\ thr' = [thr EXCEPT ![t].st = "returned"]
       ELSE /\ cache' = cache
            /\ thr' = [thr EXCEPT ![t].st = "raised", ![t].err = "fetch"]
    /\ UNCHANGED <<now, fcall, pipeVars, wf, current_brochure, exported, mp>>

\* the call has returned or raised to the handler
TDone(t) ==
    /\ thr[t].st \in {"returned", "raised"}
    /\ thr' = [thr EXCEPT ![t] = [NoThread EXCEPT !.calls = thr[t].calls]]
    /\ UNCHANGED <<now, cache, fcall, pipeVars, wf, current_brochure, exported, mp>>

\* time passes while the threads run
Elapse(d) ==
    /\ now + d <= MaxTime
    /\ \E t \in Threads : thr[t].st # "idle"
    /\ now' = now + d
    /\ UNCHANGED <<cache, fcall, pipeVars, extVars>>

NextConcurrent ==
    \/ \E t \in Threads, u \in ScraperUrls : TStart(t, u)
    \/ \E t \in Threads : TCheck(t)
    \/ \E t \in Threads : TRead(t)
    \/ \E t \in Threads : TTest(t)
    \/ \E t \in Threads : TDel(t)
    \/ \E t \in Threads, ok \in BOOLEAN, p \in Pages : TFetch(t, ok, p)
    \/ \E t \in Threads : TDone(t)
    \/ \E d \in TickSteps : Elapse(d)

SpecConcurrent == Init /\ [][NextConcurrent]_vars

\* ------------------------------------------------------------------ claims
RECURSIVE SumSeq(_)
SumSeq(q) == IF q = <<>> THEN 0 ELSE Head(q) + SumSeq(Tail(q))

\* the call in progress has looked the cache up
LookedUp == fcall.st \in {"attempt", "returned", "raised"}

\* the entry the lookup found, and its age at the lookup
SeenAge == fcall.seenAt - fcall.seen.ts

\* C1: a URL whose entry is younger than CACHE_TIMEOUT at the lookup is
\* answered with the stored result, and no HTTP request is made for it
C1_CachedWithinTimeout ==
    (LookedUp /\ fcall.seen.present /\ SeenAge < CACHE_TIMEOUT)
        => /\ fcall.st = "returned"
           /\ fcall.result = fcall.seen.value
           /\ fcall.requests = 0
           /\ cache[fcall.url] = fcall.seen

C1_Witness ==
    /\ fcall.st = "returned"
    /\ fcall.seen.present
    /\ SeenAge = CACHE_TIMEOUT - 1
    /\ fcall.requests = 0
    /\ fcall.result.content # <<>>

\* C2: a URL whose entry has reached the age CACHE_TIMEOUT at the lookup is
\* fetched from the network again: the expired entry is gone while the
\* request runs, the call ends only after at least one request, and when it
\* returns the entry holds the new result stamped with the time it was stored
C2_RefetchedAfterTimeout ==
    (LookedUp /\ fcall.seen.present /\ SeenAge >= CACHE_TIMEOUT)
        => /\ fcall.st = "attempt" => ~cache[fcall.url].present
           /\ fcall.st \in {"returned", "raised"} => fcall.requests >= 1
           /\ fcall.st = "raised" => ~cache[fcall.url].present
           /\ fcall.st = "returned" =>
                 /\ cache[fcall.url] = Entry(fcall.result, now)
                 /\ now = fcall.seenAt + SumSeq(fcall.waits)

C2_Witness ==
    /\ fcall.st = "returned"
    /\ fcall.seen.present
    /\ SeenAge = CACHE_TIMEOUT
    /\ fcall.requests = 2
    /\ cache[fcall.url].ts > fcall.seenAt
    /\ fcall.result # fcall.seen.value

\* C8: at most MAX_RETRIES requests per call; every request before the last
\* one failed; the i-th failed request that is retried is followed by a wait
\* of 2^(i-1) and nothing else passes the time; no wait follows the last
\* request
C8_RetryWithBackoff ==
    /\ fcall.requests <= MAX_RETRIES
    /\ \A i \in 1..Len(fcall.waits) : fcall.waits[i] = 2 ^ (i - 1)
    /\ fcall.st = "attempt" =>
          /\ Len(fcall.waits) = fcall.requests
          /\ fcall.requests < MAX_RETRIES
          /\ fcall.requests > 0 =>
                fcall.last \in {"timeout", "transport", "http4xx", "http5xx"}
    /\ (fcall.st \in {"returned", "raised"} /\ fcall.requests > 0) =>
          Len(fcall.waits) = fcall.requests - 1
    /\ (fcall.st = "returned" /\ fcall.requests > 0) =>
          fcall.last \notin {"timeout", "transport", "http4xx", "http5xx"}
    /\ LookedUp => now = fcall.seenAt + SumSeq(fcall.waits)

C8_Witness ==
    /\ fcall.st = "raised"
    /\ fcall.err = "fetch"
    /\ fcall.requests = MAX_RETRIES
    /\ fcall.waits = <<1, 2>>
    /\ now = fcall.seenAt + 3

Handed ==
    pc \in {"Streaming", "Complete"} \/ (pc = "Failed" /\ hist.failedAt = "Streaming")

\* C3: the buffer handed to the generation backend is never longer than the
\* max_content_length of the run
C3_HandedBufferBounded ==
    Handed => /\ StrLen(hist.handed) <= params.max_content_length
              /\ aggregated_content = hist.handed

C3_Witness ==
    /\ pc = "Streaming"
    /\ StrLen(hist.untruncated) > params.max_content_length
    /\ StrLen(hist.handed) = params.max_content_length
    /\ Len(hist.fetchedOk) >= 2

NonDecreasing(q) == \A i, j \in 1..Len(q) : i <= j => q[i] <= q[j]

\* C4 as stated: the fractions of a run never decrease, on any path
C4_AsStated ==
    /\ NonDecreasing(progress)
    /\ \A i \in 1..Len(progress) : progress[i] \in 0..10

\* C4 amended: every fraction lies in [0.0, 1.0]; the fractions never
\* decrease on the success path, nor on a failure path up to the event before
\* the terminal one, which is 0.0
C4_NonDecreasingUntilFailure ==
    /\ \A i \in 1..Len(progress) : progress[i] \in 0..10
    /\ pc # "Failed" => NonDecreasing(progress)
    /\ (pc = "Failed" /\ progress # <<>>) =>
          /\ NonDecreasing(SubSeq(progress, 1, Len(progress) - 1))
          /\ progress[Len(progress)] = 0
          /\ \A i \in 1..(Len(progress) - 1) : progress[i] > 0

C4_Witness ==
    /\ pc = "Failed"
    /\ hist.failedAt = "Streaming"
    /\ Len(stream.yielded) = 1
    /\ progress = <<1, 3, 5, 7, 0>>

\* C5: with a callback, the last event of a finished run is 1.0 exactly when
\* the stream was exhausted and 0.0 exactly when the run failed, and 1.0 and
\* 0.0 occur nowhere but as the last event of a finished run
C5_TerminalEvent ==
    params.cb =>
       /\ progress # <<>>
       /\ pc = "Complete" <=> progress[Len(progress)] = 10
       /\ pc = "Failed" <=> progress[Len(progress)] = 0
       /\ \A i \in 1..(Len(progress) - 1) : progress[i] \notin {0, 10}

C5_Witness ==
    /\ pc = "Complete"
    /\ params.cb
    /\ Len(stream.yielded) = MaxChunks
    /\ progress = <<1, 3, 5, 7, 10>>

\* the types of the link sections of a buffer, in order
RECURSIVE SectionTypes(_)
SectionTypes(s) ==
    IF s = <<>> THEN <<>>
    ELSE IF Head(s).k = "head" THEN <<Head(s).name>> \o SectionTypes(Tail(s))
    ELSE SectionTypes(Tail(s))

\* the buffer before truncation
Untruncated == IF pc = "FetchingSecondary" THEN aggregated_content ELSE hist.untruncated

\* the run has entered the loop over a list of links
InOrPastLoop == selected_links.kind = "list" /\ (pc = "FetchingSecondary" \/ Handed)

\* C6: whatever links fail to fetch, the run is not ended by it: the loop
\* visits every link, and the buffer before truncation has one section per
\* fetched link, in selection order, and none for a failed link
C6_FailedLinksSkipped ==
    /\ (pc = "Failed" /\ selected_links.kind = "list") =>
          hist.failedAt \in {"FetchingMain", "Streaming"}
    /\ InOrPastLoop =>
          /\ SectionTypes(Untruncated) =
                [i \in 1..Len(hist.fetchedOk) |->
                    selected_links.items[hist.fetchedOk[i]].type]
          /\ \A i, j \in 1..Len(hist.fetchedOk) :
                i < j => hist.fetchedOk[i] < hist.fetchedOk[j]
          /\ \A i \in 1..Len(hist.fetchedOk), j \in 1..Len(hist.fetchFailed) :
                hist.fetchedOk[i] # hist.fetchFailed[j]
    /\ (Handed /\ selected_links.kind = "list") =>
          {hist.fetchedOk[i] : i \in 1..Len(hist.fetchedOk)}
             \cup {hist.fetchFailed[i] : i \in 1..Len(hist.fetchFailed)}
          = {i \in 1..Len(selected_links.items) : selected_links.items[i].url # ""}

C6_Witness ==
    /\ pc = "Streaming"
    /\ Len(selected_links.items) = 3
    /\ hist.fetchFailed = <<1>>
    /\ hist.fetchedOk = <<2, 3>>
    /\ SectionTypes(hist.untruncated) = <<"careers", "about">>

\* the run got an empty list of links, from the selection or from its caller
EmptySelection ==
    /\ selected_links = ListValue(<<>>)
    /\ pc \notin {"Idle", "FetchingMain", "SelectingLinks"}
    /\ hist.failedAt # "FetchingMain"

\* C7: with an empty selection the run goes on to the streaming step: it
\* fetches no secondary page, its buffer is the landing section alone, and
\* it fails only if the generation backend does
C7_EmptySelectionProceeds ==
    EmptySelection =>
       /\ hist.secFetches = 0
       /\ Untruncated = LandingSection(main_content)
       /\ pc = "FetchingSecondary" => ENABLED TruncateAndGenerate
       /\ pc = "Failed" => hist.failedAt = "Streaming"

C7_Witness ==
    /\ pc = "Complete"
    /\ selected_links = ListValue(<<>>)
    /\ hist.selCalls = 1
    /\ hist.backendCalls = 1
    /\ links # <<>>
    /\ hist.handed = Truncate(LandingSection(main_content), params.max_content_length)

\* C10 as stated: whatever the backend answers, select_relevant_links returns
\* a list, the empty one unless the answer was an object with a list under
\* "links", and the run does not fail on the value returned
C10_AsStated ==
    hist.selCalls = 1 =>
       /\ selected_links.kind = "list"
       /\ hist.selResp # "links_list" => selected_links.items = <<>>
       /\ ~(pc = "Failed" /\ hist.failedAt = "FetchingSecondary")

\* a step of the call in progress that is its cache lookup
LookupStep == fcall.st = "lookup" /\ fcall'.st # "lookup"

\* the entry of url is older than the timeout allows
Expired(url) == cache[url].present /\ now - cache[url].ts >= CACHE_TIMEOUT

\* a step that is clear_cache
ClearStep == fcall.st = "none" /\ fcall'.st = "none" /\ cache' = [u \in Urls |-> NoEntry]

\* C12: a lookup of a key never stored or of a key whose entry has expired
\* finds nothing (the call goes on to fetch) and leaves no entry for the key;
\* a lookup leaves the entries of all other keys alone; an expired entry
\* changes only by a lookup of its own key, or by clear_cache
C12_LazyEviction ==
    [][ /\ LookupStep =>
              /\ (~cache[fcall.url].present \/ Expired(fcall.url))
                     => /\ fcall'.st = "attempt"
                        /\ ~cache'[fcall.url].present
              /\ \A v \in Urls \ {fcall.url} : cache'[v] = cache[v]
        /\ \A v \in Urls :
              (Expired(v) /\ cache'[v] # cache[v])
                  => \/ LookupStep /\ fcall.url = v /\ cache'[v] = NoEntry
                     \/ ClearStep
      ]_vars

C12_Witness ==
    /\ fcall.st = "attempt"
    /\ fcall.url = "u0"
    /\ ~fcall.seen.present
    /\ ~cache["u0"].present
    /\ cache["u1"].present
    /\ fcall.seenAt - cache["u1"].ts >= CACHE_TIMEOUT

\* C19: an entry is created or overwritten only by the step in which the
\* fetch of its URL succeeds and parses, and then holds that result stamped
\* with the time; it is removed only by a lookup of its URL that finds it
\* expired, or by clear_cache; a step of a fetch that does not return leaves
\* the whole cache as it was
C19_CacheWrites ==
    [][ /\ \A v \in Urls :
              cache'[v] # cache[v]
                  => IF cache'[v].present
                     THEN /\ fcall.st = "attempt" /\ fcall.url = v
                          /\ fcall'.st = "returned"
                          /\ ~AttemptFails(fcall'.last)
                          /\ cache'[v] = Entry(fcall'.result, now')
                     ELSE \/ LookupStep /\ fcall.url = v /\ Expired(v)
                          \/ ClearStep
        /\ (fcall.st = "attempt" /\ fcall'.st # "returned") => cache' = cache
      ]_vars

C19_Witness ==
    /\ fcall.st = "raised"
    /\ fcall.url = "u1"
    /\ fcall.requests = MAX_RETRIES
    /\ ~cache["u1"].present
    /\ cache["u0"].present
    /\ cache["u0"].ts < now

\* the chunks of the backend stream: the events with text, in order
RECURSIVE TextChunks(_)
TextChunks(produced) ==
    IF produced = <<>> THEN <<>>
    ELSE (IF Head(produced).empty THEN <<>> ELSE <<Head(produced).id>>)
            \o TextChunks(Tail(produced))

\* the chunks the caller has, and the one on its way to it
Forwarded ==
    stream.yielded \o (IF stream.pending = 0 THEN <<>> ELSE <<stream.pending>>)

\* C13: at every moment the chunks yielded to the caller, with the one being
\* handed over, are the chunks the backend stream has produced, in order and
\* unchanged; a chunk being handed over is the last event asked of the backend
C13_ChunksForwarded ==
    /\ Forwarded = TextChunks(stream.produced)
    /\ stream.pending # 0 => stream.pending = Len(stream.produced)
    /\ pc \in {"Complete", "Failed"} => stream.pending = 0

C13_Witness ==
    /\ pc = "Streaming"
    /\ stream.yielded = <<1>>
    /\ stream.pending = 2

\* C14: when the backend fails during streaming, the caller has been yielded
\* every chunk produced before the failure, in order, and the error raised to
\* it ends with the message of the backend's error
C14_PartialKeptErrorWrapped ==
    (pc = "Failed" /\ hist.failedAt = "Streaming")
        => /\ stream.yielded = TextChunks(stream.produced)
           /\ stream.pending = 0
           /\ hist.cause \in BackendErrors
           /\ hist.error # <<>>
           /\ hist.error[Len(hist.error)] = hist.cause
           /\ hist.error[1] = "Error generating brochure: "

C14_Witness ==
    /\ pc = "Failed"
    /\ hist.failedAt = "Streaming"
    /\ Len(stream.produced) = 2
    /\ stream.yielded = <<2>>
    /\ hist.cause = "rate limit"

\* the secondary fetches that have ended
Finished == Len(hist.fetchedOk) + Len(hist.fetchFailed)

\* the URLs of the pages whose content a buffer holds, in order
RECURSIVE PageNames(_)
PageNames(s) ==
    IF s = <<>> THEN <<>>
    ELSE (IF Head(s).k = "page" THEN <<Head(s).name>> ELSE <<>>)
            \o PageNames(Tail(s))

\* C20: the secondary fetches start in the order of the list, each link with
\* a URL once and none skipped; at most one is under way, and only inside
\* the loop, after the selection and before the buffer is handed to the
\* generation backend; the buffer starts with the landing section and holds
\* the fetched pages in that order
C20_SequentialInOrder ==
    /\ pc \in {"Idle", "FetchingMain", "SelectingLinks"} => hist.started = <<>>
    /\ \A i, j \in 1..Len(hist.started) : i < j => hist.started[i] < hist.started[j]
    /\ Len(hist.started) - Finished \in {0, 1}
    /\ Len(hist.started) - Finished = 1
          <=> (pc = "FetchingSecondary" /\ fcall.st # "none")
    /\ InOrPastLoop =>
          /\ {hist.started[i] : i \in 1..Len(hist.started)} =
                {k \in 1..Len(selected_links.items) :
                    /\ selected_links.items[k].url # ""
                    /\ k < idx \/ (k = idx /\ fcall.st # "none")}
          /\ SubSeq(Untruncated, 1, Len(LandingSection(main_content)))
                = LandingSection(main_content)
          /\ PageNames(Untruncated) =
                PageNames(main_content) \o
                [i \in 1..Len(hist.fetchedOk) |->
                    selected_links.items[hist.fetchedOk[i]].url]
    /\ Handed => /\ fcall.st = "none"
                 /\ Len(hist.started) = Finished

C20_Witness ==
    /\ pc = "Streaming"
    /\ hist.started = <<1, 3>>
    /\ hist.fetchedOk = <<1, 3>>
    /\ PageNames(hist.untruncated) = <<"u0", "u1", "u2">>

\* C11: no lookup raises on a key another request has removed, and no
\* eviction removes an entry that is fresh
C11_AsStated ==
    \A t \in Threads : thr[t].err # "KeyError" /\ thr[t].evicted # "fresh"

\* C18 as stated: the buffer is within the bound at every point of the
\* aggregation
C18_AsStated ==
    /\ pc = "FetchingSecondary"
          => StrLen(aggregated_content) <= params.max_content_length
    /\ mp.st \in {"loop", "fetching"} => StrLen(mp.aggregated) <= mp.max_length

\* C18: what an aggregation hands over is within the bound: the buffer of
\* generate_brochure once it is past its loop, and the string
\* fetch_multiple_pages returns; the buffer of fetch_multiple_pages, whose
\* pages are cut when appended, is over the bound by the separator at most
C18_BoundedWhenHandedOver ==
    /\ Handed => StrLen(aggregated_content) <= params.max_content_length
    /\ mp.st = "done" => StrLen(mp.result) <= mp.max_length
    /\ mp.st # "none" => StrLen(mp.aggregated) <= mp.max_length + StrLen(Sep)

C18_Witness ==
    /\ mp.st = "done"
    /\ Len(mp.fetched) = 3
    /\ StrLen(mp.aggregated) = mp.max_length + 2
    /\ StrLen(mp.result) = mp.max_length

\* C15 as stated: a run that failed ends the workflow with an empty text and
\* an error status, and an error status never comes from the selection of
\* links or from a secondary fetch
C15_AsStated ==
    (wf.kind = "generate" /\ wf.st = "done" /\ pc = "Failed")
        => /\ wf.out = <<>>
           /\ wf.status = "error"
           /\ hist.failedAt \in {"FetchingMain", "Streaming"}

\* C16 as stated: an export made when the run has not completed reports that
\* there is no brochure, and never exports text
C16_AsStated ==
    (exported.done /\ exported.runAt # "Complete")
        => /\ exported.status = "no brochure"
           /\ exported.content = <<>>

\* something has been fetched, or is being fetched
FetchMade ==
    \/ fcall.st # "none"
    \/ pc # "Idle"
    \/ \E u \in Urls : cache[u].present

\* C17 as stated: an entered URL that does not start with a protocol is
\* passed on as https:// followed by the trimmed input
C17_AsStated ==
    (wf.passed # <<>> /\ ~StartsWithScheme(wf.entered))
        => wf.passed = <<"https://">> \o Trim(wf.entered)

\* C17: the URL passed on is the trimmed input when that starts with http://
\* or https://, and https:// followed by the trimmed input when it does not;
\* nothing is fetched before a URL has been passed on, and nothing at all for
\* inputs that are refused
C17_NormalizedBeforeFetch ==
    /\ wf.passed # <<>> =>
          /\ StartsWithScheme(wf.passed)
          /\ ~StartsWithScheme(TrimLeft(wf.entered))
                => wf.passed = <<"https://">> \o TrimRight(TrimLeft(wf.entered))
          /\ StartsWithScheme(TrimLeft(wf.entered))
                => wf.passed = TrimRight(TrimLeft(wf.entered))
    /\ FetchMade => wf.passed # <<>>
    /\ (wf.st = "done" /\ wf.passed = <<>>) => (wf.status = "error" /\ ~FetchMade)

C17_Witness ==
    /\ wf.kind = "preview"
    /\ wf.entered = <<"sp", "example.com", "sp">>
    /\ wf.passed = <<"https://", "example.com">>
    /\ fcall.st = "attempt"
    /\ fcall.requests = 1

\* the place of a stage in the order of the run; truncation is the step
\* from FetchingSecondary to Streaming
Rank(stage) ==
    CASE stage = "Idle"              -> 0
      [] stage = "FetchingMain"      -> 1
      [] stage = "SelectingLinks"    -> 2
      [] stage = "FetchingSecondary" -> 3
      [] stage = "Streaming"         -> 4
      [] OTHER                       -> 5

Terminal == {"Complete", "Failed"}

\* C21: the stage of a run never goes back, a run that has ended stays as
\* it ended, Complete is entered from Streaming only, and every run that
\* has started ends in Complete or in Failed
C21_StagesInOrderAndEnds ==
    /\ [][ /\ Rank(pc) <= Rank(pc')
           /\ pc \in Terminal => pc' = pc
           /\ (pc' = "Complete" /\ pc # "Complete") => pc = "Streaming"
           /\ (pc' = "Streaming" /\ pc # "Streaming") => pc = "FetchingSecondary"
         ]_vars
    /\ (pc = "FetchingMain") ~> (pc \in Terminal)

C21_Witness ==
    /\ pc = "Complete"
    /\ ~params.given
    /\ hist.fetchedOk = <<1>>
    /\ hist.fetchFailed = <<3>>
    /\ stream.yielded = <<1>>

\* C22: the content a call returns and the content of every cache entry are
\* at most MAX_CONTENT_LENGTH long, and a content-only call that went to the
\* network returns no links
C22_ContentBounded ==
    /\ fcall.st = "returned" =>
          /\ StrLen(fcall.result.content) <= MAX_CONTENT_LENGTH
          /\ (fcall.only_content /\ fcall.requests >= 1) => fcall.result.links = <<>>
    /\ \A u \in Urls :
          cache[u].present => StrLen(cache[u].value.content) <= MAX_CONTENT_LENGTH

C22_Witness ==
    /\ fcall.st = "returned"
    /\ fcall.only_content
    /\ fcall.url = MainUrl
    /\ fcall.requests = 1
    /\ fcall.result.content = <<Seg("page", MainUrl, 1, 1500)>>
    /\ fcall.result.links = <<>>
    /\ cache["u1"].present
    /\ StrLen(cache["u1"].value.content) = MAX_CONTENT_LENGTH

\* an entry stored by a content-only fetch of a page that has links
ContentOnlyEntry(url, e) ==
    /\ e.present
    /\ e.value.links = <<>>
    /\ \E p \in Pages : /\ e.value.content = PageContent(url, p)
                        /\ PageLinks(url, p) # <<>>

\* the call in progress asked for links and found such an entry, not expired
ServedContentOnly ==
    /\ fcall.st = "returned"
    /\ ~fcall.only_content
    /\ ContentOnlyEntry(fcall.url, fcall.seen)
    /\ SeenAge < CACHE_TIMEOUT

\* C23: a call for links that finds an unexpired content-only entry makes no
\* request and returns the entry, without links; the run that made the call
\* goes on with no links, and get_link_suggestions reports that none were
\* found
C23_ContentOnlyHitHasNoLinks ==
    [][ ServedContentOnly =>
           /\ fcall.requests = 0
           /\ fcall.result = fcall.seen.value
           /\ (pc = "FetchingMain" /\ pc' # pc)
                 => (links' = <<>> /\ main_content' = fcall.seen.value.content)
           /\ (wf.st = "calling" /\ wf'.st = "done") => wf'.status = "error"
      ]_vars

C23_Witness ==
    /\ pc = "Complete"
    /\ calls >= 1
    /\ links = <<>>
    /\ main_content = <<Seg("page", MainUrl, 1, 1500)>>
    /\ hist.selCalls = 1
    /\ hist.backendCalls = 0
    /\ hist.secFetches = 0

\* C24: a failed fetch of the landing page is followed by the failure of the
\* run at once, and a run that failed there has made no link selection, no
\* secondary fetch and no generation call, and has yielded no chunk
C24_MainFailureIsFatal ==
    /\ [][ (pc = "FetchingMain" /\ fcall.st = "raised")
              => (pc' = "Failed" /\ hist'.failedAt = "FetchingMain") ]_vars
    /\ [](hist.failedAt = "FetchingMain" =>
             /\ pc = "Failed"
             /\ hist.selCalls = 0
             /\ hist.backendCalls = 0
             /\ hist.started = <<>>
             /\ hist.handed = <<>>
             /\ stream = NoStream
             /\ aggregated_content = <<>>)

C24_Witness ==
    /\ pc = "Failed"
    /\ hist.failedAt = "FetchingMain"
    /\ fcall = NoCall
    /\ params.cb
    /\ progress = <<1, 0>>
    /\ now = 3

\* C25: the string fetch_multiple_pages returns is at most max_length long;
\* a URL is fetched only while the buffer is shorter than max_length; a URL
\* that fails is passed over, the buffer as it was, and the loop goes on; the
\* call returns only at the end of the list or with a full buffer
C25_MultiPagesBounded ==
    /\ [](/\ mp.st = "done" =>
                /\ StrLen(mp.result) <= mp.max_length
                /\ mp.i > Len(mp.urls) \/ StrLen(mp.aggregated) >= mp.max_length
          /\ mp.st = "fetching" => StrLen(mp.aggregated) < mp.max_length)
    /\ [][ (mp.st = "fetching" /\ fcall.st = "raised") =>
              /\ mp'.st = "loop"
              /\ mp'.i = mp.i + 1
              /\ mp'.aggregated = mp.aggregated ]_vars

C25_Witness ==
    /\ mp.st = "done"
    /\ mp.urls = <<"u1", "u2", "u1">>
    /\ mp.fetched = <<1, 3>>
    /\ mp.max_length = MAX_AGGREGATED_CONTENT
    /\ StrLen(mp.result) = 4002

\* the URLs of a list of links that are fetched: those that are not empty
RECURSIVE FetchedUrls(_)
FetchedUrls(ls) ==
    IF ls = <<>> THEN <<>>
    ELSE (IF Head(ls).url = "" THEN <<>> ELSE <<Head(ls).url>>)
            \o FetchedUrls(Tail(ls))

\* the run is past the selection of links
PastSelection ==
    \/ pc \in {"FetchingSecondary", "Streaming", "Complete"}
    \/ pc = "Failed" /\ hist.failedAt # "FetchingMain"

\* C26: a run given links makes no selection call and no call of the
\* selection backend, works on the links given, and starts their fetches in
\* the order given; a run given none calls select_relevant_links once, when
\* the landing page has been fetched, and never again
C26_SelectionOnlyWhenNotGiven ==
    /\ params.given =>
          /\ hist.selCalls = 0
          /\ hist.backendCalls = 0
          /\ pc # "SelectingLinks"
          /\ PastSelection => selected_links = ListValue(params.links)
          /\ [i \in 1..Len(hist.started) |-> params.links[hist.started[i]].url]
                = SubSeq(FetchedUrls(params.links), 1, Len(hist.started))
          /\ pc \in {"Streaming", "Complete"}
                => Len(hist.started) = Len(FetchedUrls(params.links))
    /\ ~params.given =>
          /\ hist.selCalls = (IF PastSelection THEN 1 ELSE 0)
          /\ hist.backendCalls <= hist.selCalls
          /\ pc = "SelectingLinks" => (fcall = NoCall /\ main_content # <<>>)

C26_Witness ==
    /\ pc = "Complete"
    /\ params.given
    /\ params.links = <<L1, L2, L1>>
    /\ hist.started = <<1, 2, 3>>
    /\ hist.fetchedOk = <<1, 3>>
    /\ hist.selCalls = 0
    /\ links # <<>>

\* C27 as stated: when the fetch of get_link_suggestions has ended, then for
\* every answer of the selection backend the pair returned is a list that is
\* not empty with an empty message, or the empty list with a message
C27_AsStated ==
    (wf.st = "calling" /\ wf.kind = "preview" /\ fcall.st \in {"returned", "raised"})
        => \A r \in SelectionResponses :
              LET got == GetLinkSuggestions(fcall.st = "returned",
                                            fcall.result.links, r)
              IN /\ got.links.kind = "list"
                 /\ \/ got.links.items # <<>> /\ got.error = ""
                    \/ got.links.items = <<>> /\ got.error # ""

====
